---- MODULE Spec2Model ----
(***************************************************************************)
(* Model of libcloud/loadbalancer/base.py: the value objects LBMember and  *)
(* LB, the enumeration LBAlgorithm with DEFAULT_ALGORITHM, and the base    *)
(* class LBDriver (construction, abstract operations, the default          *)
(* compute-node attach and the two algorithm translation lookups).         *)
(*                                                                         *)
(* Python values are records [t, i, s]: t is the type name, i the integer  *)
(* payload (or the index of an object in its heap), s the string payload.  *)
(***************************************************************************)
EXTENDS Integers, Sequences, FiniteSets, TLC

VARIABLES drivers, balancers, members, DEFAULT_ALGORITHM, last

vars == <<drivers, balancers, members, DEFAULT_ALGORITHM, last>>

(* ---------------------------- bounds ---------------------------------- *)

\* live objects (drivers, balancers and members together) a run may hold
MaxObjects == 3

(* ------------------------- Python values ------------------------------ *)

None == [t |-> "NoneType", i |-> 0, s |-> ""]

PyInt(n) == [t |-> "int", i |-> n, s |-> ""]

PyStr(x) == [t |-> "str", i |-> 0, s |-> x]

PyBool(b) == [t |-> "bool", i |-> IF b THEN 1 ELSE 0, s |-> ""]

\* a tuple of i elements; s is the string form of its only element when i = 1
PyTuple(n, x) == [t |-> "tuple", i |-> n, s |-> x]

\* a list holding the first n members of the member heap
PyList(n) == [t |-> "list", i |-> n, s |-> ""]

\* a reference to the i-th object of the heap of type ty
Ref(ty, n) == [t |-> ty, i |-> n, s |-> ""]

DigitChars == <<"0", "1", "2", "3", "4", "5", "6", "7", "8", "9">>

RECURSIVE Digits(_)
Digits(n) ==
    IF n < 10 THEN DigitChars[n + 1]
    ELSE Digits(n \div 10) \o DigitChars[(n % 10) + 1]

\* bool(v): the truth value Python gives v in "if v"
Truthy(v) ==
    CASE v.t = "NoneType" -> FALSE
      [] v.t = "int" -> v.i # 0
      [] v.t = "bool" -> v.i = 1
      [] v.t = "str" -> v.s # ""
      [] v.t = "tuple" -> v.i # 0
      [] v.t = "list" -> v.i # 0
      [] OTHER -> TRUE

\* str(v) for the scalar values
Str(v) ==
    CASE v.t = "NoneType" -> "None"
      [] v.t = "int" -> IF v.i < 0 THEN "-" \o Digits(0 - v.i) ELSE Digits(v.i)
      [] v.t = "bool" -> IF v.i = 1 THEN "True" ELSE "False"
      [] v.t = "str" -> v.s
      [] OTHER -> "<" \o v.t \o ">"

\* fmt % v with one %s in fmt: a tuple operand is taken as the argument list
PercentS(prefix, v) ==
    IF v.t = "tuple"
    THEN IF v.i = 1 THEN [ok |-> TRUE, text |-> prefix \o v.s]
         ELSE [ok |-> FALSE,
               text |-> IF v.i = 0
                        THEN "not enough arguments for format string"
                        ELSE "not all arguments converted during string formatting"]
    ELSE [ok |-> TRUE, text |-> prefix \o Str(v)]

\* equality of dictionary keys: int and bool keys compare by number
KeyEq(a, b) ==
    IF a.t \in {"int", "bool"} /\ b.t \in {"int", "bool"} THEN a.i = b.i
    ELSE a = b

\* d[k] on a dictionary d (a function over its keys); found = FALSE is KeyError
DictGet(d, k) ==
    IF \E q \in DOMAIN d : KeyEq(q, k)
    THEN [found |-> TRUE, val |-> d[CHOOSE q \in DOMAIN d : KeyEq(q, k)]]
    ELSE [found |-> FALSE, val |-> None]

(* ------------------------- call outcomes ------------------------------ *)

Return(v) == [kind |-> "return", exc |-> "", val |-> v, drv |-> 0]

\* exception of class e; val is its value (message), drv the driver it carries
Raise(e, v, d) == [kind |-> "raise", exc |-> e, val |-> v, drv |-> d]

(* --------------------------- LBAlgorithm ------------------------------ *)

RANDOM == 0

ROUND_ROBIN == 1

LEAST_CONNECTIONS == 2

LBAlgorithm == {RANDOM, ROUND_ROBIN, LEAST_CONNECTIONS}

\* faulty variant: the default names another member of the enumeration
DefaultAlgorithmRandom == RANDOM

DefaultAlgorithmValue == ROUND_ROBIN

(* ---------------------------- LBMember -------------------------------- *)

LBMember(id, ip, port) ==
    [id |-> IF Truthy(id) THEN PyStr(Str(id)) ELSE None,
     ip |-> ip,
     port |-> port]

(* ------------------------------- LB ----------------------------------- *)

\* faulty variant: a truthy id is stored as given, without str()
LB_raw_id(id, name, state, ip, port, driver) ==
    [id |-> IF Truthy(id) THEN id ELSE None,
     name |-> name,
     state |-> state,
     ip |-> ip,
     port |-> port,
     driver |-> driver]

LB(id, name, state, ip, port, driver) ==
    [id |-> IF Truthy(id) THEN PyStr(Str(id)) ELSE None,
     name |-> name,
     state |-> state,
     ip |-> ip,
     port |-> port,
     driver |-> driver]

(* --------------------------- driver classes --------------------------- *)

\* LBDriver itself and a concrete driver deriving from it
Classes == {"LBDriver", "StubDriver"}

\* the operations a class defines itself instead of inheriting them
Overridden(cls) ==
    IF cls = "LBDriver" THEN {}
    ELSE {"balancer_attach_member", "balancer_detach_member",
          "balancer_list_members"}

\* the public operations of LBDriver, inherited by every class
Methods ==
    {"list_balancers", "create_balancer", "destroy_balancer", "balancer_detail",
     "balancer_attach_compute_node", "balancer_attach_member",
     "balancer_detach_member", "balancer_list_members"}

\* positional parameters after self
Arity(method) ==
    CASE method \in {"list_balancers", "create_balancer", "balancer_detail"} -> 0
      [] method \in {"destroy_balancer", "balancer_list_members"} -> 1
      [] OTHER -> 2

EmptyDict == [k \in {} |-> None]

VALUE_TO_ALGORITHM_MAP(cls) ==
    IF cls = "LBDriver" THEN EmptyDict
    ELSE (PyStr("rr") :> PyInt(ROUND_ROBIN)) @@ (PyStr("wrr") :> PyInt(ROUND_ROBIN))
         @@ (PyInt(1) :> PyInt(LEAST_CONNECTIONS))

ALGORITHM_TO_VALUE_MAP(cls) ==
    IF cls = "LBDriver" THEN EmptyDict
    ELSE (PyInt(ROUND_ROBIN) :> PyStr("rr")) @@ (PyInt(LEAST_CONNECTIONS) :> PyInt(1))
         @@ (PyInt(RANDOM) :> PyStr("any"))

\* what an overriding operation of a concrete driver may answer
StubOutcomes(method, self, args) ==
    {Raise("LibcloudError", PyStr("provider error"), self)} \cup
    CASE method = "balancer_attach_member" -> {Return(args[2])}
      [] method = "balancer_detach_member" -> {Return(PyBool(TRUE)), Return(PyBool(FALSE))}
      [] method = "balancer_list_members" -> {Return(PyList(n)) : n \in 0..Len(members)}
      [] OTHER -> {}

\* the compute nodes of the caller: objects with a public_ip sequence
Nodes ==
    <<[public_ip |-> <<>>],
      [public_ip |-> <<PyStr("10.0.0.1")>>],
      [public_ip |-> <<PyStr("10.0.0.2"), PyStr("10.0.0.3")>>]>>

(* ----------------------------- LBDriver ------------------------------- *)

\* what connectionCls(*args).connect() may do
ConnectOutcomes == {Return(None), Raise("socket.error", PyStr("connection refused"), 0)}

\* faulty variant: the secret is appended to the connection arguments even when None
LBDriverInit_always_secret(self, cls, key, secret, secure, env) ==
    LET args == <<key, secret, secure>>
        connection == [args |-> args, driver |-> self, connects |-> 1]
    IN [driver |-> [cls |-> cls, key |-> key, secret |-> secret,
                    connection |-> connection],
        calls |-> <<[method |-> "connectionCls", self |-> Ref("LBDriver", self),
                     args |-> args, outcome |-> Return(None)],
                    [method |-> "connect", self |-> Ref("LBDriver", self),
                     args |-> <<>>, outcome |-> env]>>,
        outcome |-> IF env.kind = "raise" THEN env
                    ELSE Return(Ref("LBDriver", self))]

\* __init__: the new driver object, the calls made on its connection, the outcome
LBDriverInit(self, cls, key, secret, secure, env) ==
    LET args == <<key>> \o (IF secret # None THEN <<secret>> ELSE <<>>) \o <<secure>>
        connection == [args |-> args, driver |-> self, connects |-> 1]
    IN [driver |-> [cls |-> cls, key |-> key, secret |-> secret,
                    connection |-> connection],
        calls |-> <<[method |-> "connectionCls", self |-> Ref("LBDriver", self),
                     args |-> args, outcome |-> Return(None)],
                    [method |-> "connect", self |-> Ref("LBDriver", self),
                     args |-> <<>>, outcome |-> env]>>,
        outcome |-> IF env.kind = "raise" THEN env
                    ELSE Return(Ref("LBDriver", self))]

NotImplementedError(name) ==
    Raise("NotImplementedError", PyStr(name \o " not implemented for this driver"), 0)

list_balancers == NotImplementedError("list_balancers")

create_balancer == NotImplementedError("create_balancer")

destroy_balancer == NotImplementedError("destroy_balancer")

\* faulty variant: the body is empty and the call returns None
balancer_detail_pass == Return(None)

balancer_detail == NotImplementedError("balancer_detail")

balancer_attach_member == NotImplementedError("balancer_attach_member")

balancer_detach_member == NotImplementedError("balancer_detach_member")

balancer_list_members == NotImplementedError("balancer_list_members")

Result(calls, outcome, alloc) == [calls |-> calls, outcome |-> outcome, alloc |-> alloc]

RECURSIVE Invoke(_, _, _, _)

\* the body of LBDriver.balancer_attach_compute_node: self.attach_member is
\* looked up first, then the argument LBMember(None, node.public_ip[0],
\* balancer.port) is built and the call made
balancer_attach_compute_node(self, balancer, node, env) ==
    IF "attach_member" \notin Methods
    THEN Result(<<>>,
                Raise("AttributeError",
                      PyStr("'" \o drivers[self].cls
                            \o "' object has no attribute 'attach_member'"), 0),
                <<>>)
    ELSE IF Nodes[node.i].public_ip = <<>>
    THEN Result(<<>>, Raise("IndexError", PyStr("list index out of range"), 0), <<>>)
    ELSE LET m == LBMember(None, Nodes[node.i].public_ip[1], balancers[balancer.i].port)
             r == Invoke(self, "attach_member",
                         <<Ref("LBMember", Len(members) + 1)>>, env)
         IN Result(r.calls, r.outcome, <<m>> \o r.alloc)

\* the body LBDriver gives an operation it defines
BaseBody(self, method, args, env) ==
    CASE method = "list_balancers" -> Result(<<>>, list_balancers, <<>>)
      [] method = "create_balancer" -> Result(<<>>, create_balancer, <<>>)
      [] method = "destroy_balancer" -> Result(<<>>, destroy_balancer, <<>>)
      [] method = "balancer_detail" -> Result(<<>>, balancer_detail, <<>>)
      [] method = "balancer_attach_compute_node" ->
             balancer_attach_compute_node(self, args[1], args[2], env)
      [] method = "balancer_attach_member" -> Result(<<>>, balancer_attach_member, <<>>)
      [] method = "balancer_detach_member" -> Result(<<>>, balancer_detach_member, <<>>)
      [] method = "balancer_list_members" -> Result(<<>>, balancer_list_members, <<>>)

\* self.<method>(*args) on driver self: attribute lookup, the check of the
\* argument count against the signature, then the body of the defining class
Invoke(self, method, args, env) ==
    LET cls == drivers[self].cls
        entry(out) == [method |-> method, self |-> Ref("LBDriver", self),
                       args |-> args, outcome |-> out]
    IN IF method \notin Methods
       THEN Result(<<>>,
                   Raise("AttributeError",
                         PyStr("'" \o cls \o "' object has no attribute '"
                               \o method \o "'"), 0),
                   <<>>)
       ELSE IF Len(args) # Arity(method)
       THEN LET out == Raise("TypeError",
                             PyStr(method \o "() takes exactly "
                                   \o Digits(Arity(method) + 1) \o " arguments ("
                                   \o Digits(Len(args) + 1) \o " given)"), 0)
            IN Result(<<entry(out)>>, out, <<>>)
       ELSE IF method \in Overridden(cls)
       THEN Result(<<entry(env)>>, env, <<>>)
       ELSE LET r == BaseBody(self, method, args, env)
            IN Result(<<entry(r.outcome)>> \o r.calls, r.outcome, r.alloc)

\* faulty variant: the lookup reads the map of the opposite direction
value_to_algorithm_wrong_map(self, value) ==
    LET hit == DictGet(ALGORITHM_TO_VALUE_MAP(drivers[self].cls), value)
        msg == PercentS("Invalid value: ", value)
    IN IF hit.found THEN Return(hit.val)
       ELSE IF msg.ok THEN Raise("LibcloudError", PyStr(msg.text), self)
       ELSE Raise("TypeError", PyStr(msg.text), 0)

value_to_algorithm(self, value) ==
    LET hit == DictGet(VALUE_TO_ALGORITHM_MAP(drivers[self].cls), value)
        msg == PercentS("Invalid value: ", value)
    IN IF hit.found THEN Return(hit.val)
       ELSE IF msg.ok THEN Raise("LibcloudError", PyStr(msg.text), self)
       ELSE Raise("TypeError", PyStr(msg.text), 0)

\* faulty variant: the message is the one copied from _value_to_algorithm
algorithm_to_value_copied(self, algorithm) ==
    LET hit == DictGet(ALGORITHM_TO_VALUE_MAP(drivers[self].cls), algorithm)
        msg == PercentS("Invalid value: ", algorithm)
    IN IF hit.found THEN Return(hit.val)
       ELSE IF msg.ok THEN Raise("LibcloudError", PyStr(msg.text), self)
       ELSE Raise("TypeError", PyStr(msg.text), 0)

algorithm_to_value(self, algorithm) ==
    LET hit == DictGet(ALGORITHM_TO_VALUE_MAP(drivers[self].cls), algorithm)
        msg == PercentS("Invalid algorithm: ", algorithm)
    IN IF hit.found THEN Return(hit.val)
       ELSE IF msg.ok THEN Raise("LibcloudError", PyStr(msg.text), self)
       ELSE Raise("TypeError", PyStr(msg.text), 0)

(* --------------------------- LB operations ---------------------------- *)

attach_compute_node(self, node, env) ==
    Invoke(balancers[self].driver.i, "balancer_attach_compute_node", <<node>>, env)

\* faulty variant: the balancer is not passed on, as in attach_compute_node
detach_member_noself(self, member, env) ==
    Invoke(balancers[self].driver.i, "balancer_detach_member", <<member>>, env)

detach_member(self, member, env) ==
    Invoke(balancers[self].driver.i, "balancer_detach_member",
           <<Ref("LB", self), member>>, env)

list_members(self, env) ==
    Invoke(balancers[self].driver.i, "balancer_list_members", <<Ref("LB", self)>>, env)

(* ------------------------------ inputs -------------------------------- *)

IdInputs == {None, PyInt(0), PyInt(42), PyStr(""), PyStr("0")}

\* (secret, secure) as given to the driver constructor; the first is its defaults
InitInputs ==
    {<<None, PyBool(TRUE)>>, <<PyStr("secret"), PyBool(TRUE)>>,
     <<PyStr("secret"), PyBool(FALSE)>>}

ValueInputs ==
    {PyStr("rr"), PyStr("wrr"), PyStr("1"), PyInt(1), PyBool(TRUE), PyStr("lc"),
     PyTuple(0, ""), PyTuple(1, "lc"), PyTuple(2, "")}

AlgorithmInputs ==
    {PyInt(a) : a \in LBAlgorithm} \cup
    {PyInt(7), PyStr("7"), PyBool(TRUE), None, PyTuple(1, "7"), PyTuple(2, "")}

KwargsInputs == {<<>>, <<PyStr("name"), PyInt(80)>>}

BalancerArgs == {None} \cup {Ref("LB", b) : b \in DOMAIN balancers}

MemberArgs == {None} \cup {Ref("LBMember", m) : m \in DOMAIN members}

NodeArgs == {Ref("Node", n) : n \in DOMAIN Nodes}

Objects == Len(drivers) + Len(balancers) + Len(members)

Op(op, self, args, r) ==
    [op |-> op, self |-> self, args |-> args, calls |-> r.calls, outcome |-> r.outcome]

\* no call is in progress or awaiting its caller
NoOp == Op("idle", None, <<>>, [calls |-> <<>>, outcome |-> Return(None)])

(* --------------------------- state machine ---------------------------- *)

Init ==
    /\ drivers = <<>>
    /\ balancers = <<>>
    /\ members = <<>>
    /\ DEFAULT_ALGORITHM = DefaultAlgorithmValue
    /\ last = NoOp

\* cls(key, secret, secure): a failed __init__ leaves the caller no driver
New_LBDriver(cls, key, secret, secure, env) ==
    /\ last = NoOp
    /\ Objects < MaxObjects
    /\ LET self == Len(drivers) + 1
           r == LBDriverInit(self, cls, key, secret, secure, env)
       IN /\ drivers' = IF r.outcome.kind = "return"
                        THEN Append(drivers, r.driver) ELSE drivers
          /\ last' = Op("LBDriver.__init__", Ref("LBDriver", self),
                        <<key, secret, secure>>, r)
    /\ UNCHANGED <<balancers, members, DEFAULT_ALGORITHM>>

New_LB(id, name, state, ip, port, driver) ==
    /\ last = NoOp
    /\ Objects < MaxObjects
    /\ balancers' = Append(balancers, LB(id, name, state, ip, port, driver))
    /\ last' = Op("LB.__init__", Ref("LB", Len(balancers) + 1),
                  <<id, name, state, ip, port, driver>>,
                  [calls |-> <<>>, outcome |-> Return(Ref("LB", Len(balancers) + 1))])
    /\ UNCHANGED <<drivers, members, DEFAULT_ALGORITHM>>

New_LBMember(id, ip, port) ==
    /\ last = NoOp
    /\ Objects < MaxObjects
    /\ members' = Append(members, LBMember(id, ip, port))
    /\ last' = Op("LBMember.__init__", Ref("LBMember", Len(members) + 1),
                  <<id, ip, port>>,
                  [calls |-> <<>>,
                   outcome |-> Return(Ref("LBMember", Len(members) + 1))])
    /\ UNCHANGED <<drivers, balancers, DEFAULT_ALGORITHM>>

Call_attach_compute_node(b, node, env) ==
    /\ last = NoOp
    /\ LET r == attach_compute_node(b, node, env)
       IN /\ members' = members \o r.alloc
          /\ last' = Op("LB.attach_compute_node", Ref("LB", b), <<node>>, r)
    /\ UNCHANGED <<drivers, balancers, DEFAULT_ALGORITHM>>

\* faulty variant: detaching a member marks the balancer as being updated
Call_detach_member_updates(b, member, env) ==
    /\ last = NoOp
    /\ last' = Op("LB.detach_member", Ref("LB", b), <<member>>,
                  detach_member(b, member, env))
    /\ balancers' = [balancers EXCEPT ![b].state = PyStr("PENDING_UPDATE")]
    /\ UNCHANGED <<drivers, members, DEFAULT_ALGORITHM>>

Call_detach_member(b, member, env) ==
    /\ last = NoOp
    /\ last' = Op("LB.detach_member", Ref("LB", b), <<member>>,
                  detach_member(b, member, env))
    /\ UNCHANGED <<drivers, balancers, members, DEFAULT_ALGORITHM>>

Call_list_members(b, env) ==
    /\ last = NoOp
    /\ last' = Op("LB.list_members", Ref("LB", b), <<>>, list_members(b, env))
    /\ UNCHANGED <<drivers, balancers, members, DEFAULT_ALGORITHM>>

\* driver.<method>(*args) called directly on a driver
DriverCall(d, method, args, shown, env) ==
    /\ last = NoOp
    /\ LET r == Invoke(d, method, args, env)
       IN /\ members' = members \o r.alloc
          /\ last' = Op("LBDriver." \o method, Ref("LBDriver", d), shown, r)
    /\ UNCHANGED <<drivers, balancers, DEFAULT_ALGORITHM>>

Call_list_balancers(d) == DriverCall(d, "list_balancers", <<>>, <<>>, Return(None))

Call_create_balancer(d, kwargs) ==
    DriverCall(d, "create_balancer", <<>>, kwargs, Return(None))

Call_destroy_balancer(d, balancer) ==
    DriverCall(d, "destroy_balancer", <<balancer>>, <<balancer>>, Return(None))

Call_balancer_detail(d, kwargs) ==
    DriverCall(d, "balancer_detail", <<>>, kwargs, Return(None))

Call_balancer_attach_compute_node(d, balancer, node, env) ==
    DriverCall(d, "balancer_attach_compute_node", <<balancer, node>>,
               <<balancer, node>>, env)

Call_balancer_attach_member(d, balancer, member, env) ==
    DriverCall(d, "balancer_attach_member", <<balancer, member>>,
               <<balancer, member>>, env)

Call_balancer_detach_member(d, balancer, member, env) ==
    DriverCall(d, "balancer_detach_member", <<balancer, member>>,
               <<balancer, member>>, env)

Call_balancer_list_members(d, balancer, env) ==
    DriverCall(d, "balancer_list_members", <<balancer>>, <<balancer>>, env)

Call_value_to_algorithm(d, value) ==
    /\ last = NoOp
    /\ last' = Op("LBDriver._value_to_algorithm", Ref("LBDriver", d), <<value>>,
                  [calls |-> <<>>, outcome |-> value_to_algorithm(d, value)])
    /\ UNCHANGED <<drivers, balancers, members, DEFAULT_ALGORITHM>>

Call_algorithm_to_value(d, algorithm) ==
    /\ last = NoOp
    /\ last' = Op("LBDriver._algorithm_to_value", Ref("LBDriver", d), <<algorithm>>,
                  [calls |-> <<>>, outcome |-> algorithm_to_value(d, algorithm)])
    /\ UNCHANGED <<drivers, balancers, members, DEFAULT_ALGORITHM>>

\* the caller has taken the outcome of the call; the next call may start
Forget ==
    /\ last # NoOp
    /\ last' = NoOp
    /\ UNCHANGED <<drivers, balancers, members, DEFAULT_ALGORITHM>>

Next ==
    \/ \E cls \in Classes, given \in InitInputs, env \in ConnectOutcomes :
          New_LBDriver(cls, PyStr("key"), given[1], given[2], env)
    \/ \E id \in IdInputs, d \in DOMAIN drivers :
          New_LB(id, PyStr("web"), PyStr("ACTIVE"), PyStr("192.0.2.1"), PyInt(80),
                 Ref("LBDriver", d))
    \/ \E id \in IdInputs : New_LBMember(id, PyStr("10.0.0.9"), PyInt(8080))
    \/ \E b \in DOMAIN balancers, node \in NodeArgs :
          \E env \in StubOutcomes("balancer_attach_member", balancers[b].driver.i,
                                  <<Ref("LB", b), Ref("LBMember", Len(members) + 1)>>) :
             Call_attach_compute_node(b, node, env)
    \/ \E b \in DOMAIN balancers, member \in MemberArgs :
          \E env \in StubOutcomes("balancer_detach_member", balancers[b].driver.i,
                                  <<Ref("LB", b), member>>) :
             Call_detach_member(b, member, env)
    \/ \E b \in DOMAIN balancers :
          \E env \in StubOutcomes("balancer_list_members", balancers[b].driver.i,
                                  <<Ref("LB", b)>>) :
             Call_list_members(b, env)
    \/ \E d \in DOMAIN drivers : Call_list_balancers(d)
    \/ \E d \in DOMAIN drivers, kwargs \in KwargsInputs : Call_create_balancer(d, kwargs)
    \/ \E d \in DOMAIN drivers, balancer \in BalancerArgs :
          Call_destroy_balancer(d, balancer)
    \/ \E d \in DOMAIN drivers, kwargs \in KwargsInputs : Call_balancer_detail(d, kwargs)
    \/ \E d \in DOMAIN drivers, balancer \in BalancerArgs, node \in NodeArgs :
          \E env \in StubOutcomes("balancer_attach_member", d,
                                  <<balancer, Ref("LBMember", Len(members) + 1)>>) :
             Call_balancer_attach_compute_node(d, balancer, node, env)
    \/ \E d \in DOMAIN drivers, balancer \in BalancerArgs, member \in MemberArgs :
          \E env \in StubOutcomes("balancer_attach_member", d, <<balancer, member>>) :
             Call_balancer_attach_member(d, balancer, member, env)
    \/ \E d \in DOMAIN drivers, balancer \in BalancerArgs, member \in MemberArgs :
          \E env \in StubOutcomes("balancer_detach_member", d, <<balancer, member>>) :
             Call_balancer_detach_member(d, balancer, member, env)
    \/ \E d \in DOMAIN drivers, balancer \in BalancerArgs :
          \E env \in StubOutcomes("balancer_list_members", d, <<balancer>>) :
             Call_balancer_list_members(d, balancer, env)
    \/ \E d \in DOMAIN drivers, value \in ValueInputs : Call_value_to_algorithm(d, value)
    \/ \E d \in DOMAIN drivers, algorithm \in AlgorithmInputs :
          Call_algorithm_to_value(d, algorithm)
    \/ Forget

Spec == Init /\ [][Next]_vars

(* ------------------------------ claims -------------------------------- *)

LastIs(op) == last.op = op

\* the driver a forwarding call of the balancer last.self must reach
OwningDriver == balancers[last.self.i].driver

\* the call a balancer's forwarding operation must make, with its outcome
Forwarded(method, args) ==
    last.calls = <<[method |-> method, self |-> OwningDriver, args |-> args,
                    outcome |-> last.outcome]>>

\* C1: b.attach_compute_node(n) calls the owning driver's
\* balancer_attach_compute_node with the balancer b and the node n, and its
\* outcome is exactly the outcome of that driver call.
C1_AttachComputeNodeForwards ==
    LastIs("LB.attach_compute_node") =>
        /\ last.calls # <<>>
        /\ last.calls[1].method = "balancer_attach_compute_node"
        /\ last.calls[1].self = OwningDriver
        /\ last.calls[1].args = <<last.self, last.args[1]>>
        /\ last.calls[1].outcome = last.outcome

\* C2: on a driver that does not override it, balancer_attach_compute_node(b, n)
\* with a node that has a public address builds a Member with no id, the node's
\* first public address and b.port, hands it to balancer_attach_member(b, Member)
\* and returns that call's outcome.
C2_BaseAttachBuildsMember ==
    ( /\ LastIs("LBDriver.balancer_attach_compute_node")
      /\ last.args[1].t = "LB"
      /\ Nodes[last.args[2].i].public_ip # <<>> )
    => \E k \in DOMAIN last.calls :
          LET c == last.calls[k]
          IN /\ c.method = "balancer_attach_member"
             /\ Len(c.args) = 2
             /\ c.args[1] = last.args[1]
             /\ c.args[2].t = "LBMember"
             /\ c.args[2].i \in DOMAIN members
             /\ members[c.args[2].i] =
                    [id |-> None,
                     ip |-> Nodes[last.args[2].i].public_ip[1],
                     port |-> balancers[last.args[1].i].port]
             /\ c.outcome = last.outcome

\* C3: b.detach_member(m) makes exactly the call balancer_detach_member(b, m) on
\* the owning driver, b.list_members() exactly the call balancer_list_members(b),
\* and each ends with the outcome (value or failure) of that call, unmodified.
C3_DetachListForward ==
    /\ LastIs("LB.detach_member") =>
           Forwarded("balancer_detach_member", <<last.self, last.args[1]>>)
    /\ LastIs("LB.list_members") =>
           Forwarded("balancer_list_members", <<last.self>>)

C3_Witness ==
    /\ LastIs("LB.detach_member")
    /\ last.args[1].t = "LBMember"
    /\ last.outcome = Return(PyBool(TRUE))

Abstract ==
    {"list_balancers", "create_balancer", "destroy_balancer", "balancer_detail",
     "balancer_attach_member", "balancer_detach_member", "balancer_list_members"}

\* C4: each of the seven abstract operations, called on a driver of the base
\* class LBDriver with any values for its parameters, raises
\* NotImplementedError, returns nothing and calls nothing else.
C4_BaseNotImplemented ==
    \A m \in Abstract :
        (LastIs("LBDriver." \o m) /\ drivers[last.self.i].cls = "LBDriver") =>
            /\ last.outcome.kind = "raise"
            /\ last.outcome.exc = "NotImplementedError"
            /\ Len(last.calls) = 1
            /\ last.calls[1].outcome = last.outcome

C4_Witness ==
    /\ LastIs("LBDriver.create_balancer")
    /\ drivers[last.self.i].cls = "LBDriver"
    /\ last.args # <<>>
    /\ last.outcome.exc = "NotImplementedError"

\* the outcome a lookup of v in dictionary d must have when v is a key of d
Mapped(d, v) == \E q \in DOMAIN d : KeyEq(q, v) /\ last.outcome = Return(d[q])

IsKey(d, v) == \E q \in DOMAIN d : KeyEq(q, v)

Miss(prefix, v) ==
    IF v.t # "tuple"
    THEN last.outcome = Raise("LibcloudError", PyStr(prefix \o Str(v)), last.self.i)
    ELSE IF v.i = 1
    THEN last.outcome = Raise("LibcloudError", PyStr(prefix \o v.s), last.self.i)
    ELSE last.outcome.kind = "raise" /\ last.outcome.exc = "TypeError"

Pairs(cls) ==
    {p \in (DOMAIN VALUE_TO_ALGORITHM_MAP(cls)) \X (DOMAIN ALGORITHM_TO_VALUE_MAP(cls)) :
        /\ VALUE_TO_ALGORITHM_MAP(cls)[p[1]] = p[2]
        /\ ALGORITHM_TO_VALUE_MAP(cls)[p[2]] = p[1]}

NormalId(id) ==
    IF id \in {None, PyInt(0), PyStr("")} THEN None
    ELSE IF id = PyInt(42) THEN PyStr("42")
    ELSE id

\* C7: LBMember and LB store the same identifier: none for a falsy id (none,
\* zero, the empty string), the string form of the id otherwise (42 gives
\* "42"); an identifier that is present is a string.
C7_IdNormalized ==
    /\ LastIs("LBMember.__init__") =>
           members[last.self.i].id = NormalId(last.args[1])
    /\ LastIs("LB.__init__") =>
           balancers[last.self.i].id = NormalId(last.args[1])
    /\ \A m \in DOMAIN members : members[m].id = None \/ members[m].id.t = "str"
    /\ \A b \in DOMAIN balancers : balancers[b].id = None \/ balancers[b].id.t = "str"

C7_Witness ==
    /\ LastIs("LB.__init__")
    /\ last.args[1] = PyInt(42)
    /\ balancers[last.self.i].id = PyStr("42")
    /\ \E m \in DOMAIN members : members[m].id = None

\* the arguments the constructor must give the connection
ConnectionArgs(key, secret, secure) ==
    IF secret = None THEN <<key, secure>> ELSE <<key, secret, secure>>

\* C8: constructing a driver creates one connection from the key, the secret
\* when one is given and the secure flag, in that order, makes the driver the
\* connection's driver and calls connect once; a failure of connect is the
\* failure of the construction and leaves no driver; no other operation calls
\* connect, so every driver's connection has been connected exactly once.
C8_ConnectOnceAtConstruction ==
    /\ LastIs("LBDriver.__init__") =>
           /\ Len(last.calls) = 2
           /\ last.calls[1].method = "connectionCls"
           /\ last.calls[1].args =
                  ConnectionArgs(last.args[1], last.args[2], last.args[3])
           /\ last.calls[2].method = "connect"
           /\ IF last.calls[2].outcome.kind = "raise"
              THEN /\ last.outcome = last.calls[2].outcome
                   /\ last.self.i \notin DOMAIN drivers
              ELSE /\ last.outcome = Return(last.self)
                   /\ last.self.i = Len(drivers)
                   /\ drivers[last.self.i].connection.args = last.calls[1].args
    /\ ~LastIs("LBDriver.__init__") =>
           \A k \in DOMAIN last.calls :
               last.calls[k].method \notin {"connect", "connectionCls"}
    /\ \A d \in DOMAIN drivers :
           /\ drivers[d].connection.driver = d
           /\ drivers[d].connection.connects = 1

C8_Witness ==
    /\ LastIs("LBDriver.__init__")
    /\ last.args[2] = PyStr("secret")
    /\ last.outcome.kind = "raise"
    /\ last.outcome.exc = "socket.error"
    /\ Len(drivers) = 1

\* C9: no step changes a field of a balancer or of a member that exists.
C9_SnapshotsUnchanged ==
    [][ /\ \A b \in DOMAIN balancers :
              b \in DOMAIN balancers' /\ balancers'[b] = balancers[b]
        /\ \A m \in DOMAIN members :
              m \in DOMAIN members' /\ members'[m] = members[m] ]_vars

C9_Witness ==
    /\ LastIs("LB.detach_member")
    /\ last.args[1].t = "LBMember"
    /\ last.outcome.kind = "raise"
    /\ balancers[last.self.i].state = PyStr("ACTIVE")

\* C10: the default algorithm is ROUND_ROBIN in every state, and ROUND_ROBIN
\* differs from RANDOM and from LEAST_CONNECTIONS.
C10_DefaultIsRoundRobin ==
    /\ DEFAULT_ALGORITHM = ROUND_ROBIN
    /\ ROUND_ROBIN # RANDOM
    /\ ROUND_ROBIN # LEAST_CONNECTIONS
    /\ DEFAULT_ALGORITHM \in LBAlgorithm

C10_Witness ==
    /\ LastIs("LBDriver._algorithm_to_value")
    /\ last.args[1] = PyInt(DEFAULT_ALGORITHM)
    /\ last.outcome = Return(PyStr("rr"))

====
